---- MODULE Spec2Model ----
(***************************************************************************)
(* A model of jtlocalize/core/localization_utils.py: the strings-file      *)
(* record grammar and parser, the dictionary builder, the directory        *)
(* extraction pipeline and the serializer.                                 *)
(*                                                                         *)
(* A text is a sequence of one-character strings.  Positions are 1-based.  *)
(* A regular expression of the source is modelled by a matcher that tries  *)
(* the alternatives in the order Python's backtracking engine tries them   *)
(* (leftmost start, greedy quantifiers longest first, lazy ones shortest   *)
(* first) and returns the first that succeeds.                             *)
(***************************************************************************)
EXTENDS Integers, Sequences, FiniteSets, TLC

\* ------------------------------------------------------------------ text

NL == "\n"
QU == "\""
BS == "\\"
\* The byte-order mark the UTF-16 stream writer emits before its first write.
BOM == "BOM"

\* \s of the re module on the characters the model uses.
IsSpace(c) == c \in {" ", "\n", "\t", "\r"}

\* Whether the literal lit occurs in t at position i.
IsAt(t, i, lit) ==
    /\ i >= 1
    /\ i + Len(lit) - 1 <= Len(t)
    /\ \A j \in 1..Len(lit) : t[i + j - 1] = lit[j]

\* t[a..b], empty when b < a.
Slice(t, a, b) == IF b < a THEN <<>> ELSE SubSeq(t, a, b)

RECURSIVE Concat(_)
Concat(ss) == IF ss = <<>> THEN <<>> ELSE Head(ss) \o Concat(Tail(ss))

\* The least and the greatest of a non-empty set of positions.
Least(S) == CHOOSE x \in S : \A y \in S : x <= y
Greatest(S) == CHOOSE x \in S : \A y \in S : x >= y

\* " *" (greedy): the position after the run of spaces that starts at i.
SkipSpaces(t, i) ==
    IF i > Len(t) THEN i
    ELSE Least({j \in i..(Len(t) + 1) : j > Len(t) \/ t[j] # " "})

\* \s* (greedy): the position after the run of whitespace that starts at i.
SkipWhitespace(t, i) ==
    IF i > Len(t) THEN i
    ELSE Least({j \in i..(Len(t) + 1) : j > Len(t) \/ ~IsSpace(t[j])})

\* The first position >= i holding c, or Len(t) + 1.
FirstIndexOf(t, i, c) ==
    IF i > Len(t) THEN Len(t) + 1
    ELSE Least({j \in i..(Len(t) + 1) : j > Len(t) \/ t[j] = c})

Contains(t, lit) == \E i \in 1..Len(t) : IsAt(t, i, lit)

\* ----------------------------------------------- the strings-file grammar
\* HEADER_COMMENT_KEY_VALUE_TUPLES_REGEX =
\*   ((/\*\*\* *[^\n]*? *\*\*\*/\n\n)*)(/\* *[^;]* *\*/\n)"(.*?)" *= *"(.*?)";\s*\n
\* with re.MULTILINE | re.DOTALL.

NoMatch == [ok |-> FALSE]

\* ;\s*\n after the closing quote at b: \s* is greedy, so the match ends after the
\* last line break of the whitespace run that follows the semicolon.  0: no match.
NewlinesIn(t, i, e) == {j \in i..(e - 1) : t[j] = NL}

AfterLastNewline(newlines) == IF newlines = {} THEN 0 ELSE Greatest(newlines) + 1

TerminatorEndNoLineBreak(t, b) ==
    IF IsAt(t, b, <<QU, ";">>) THEN SkipWhitespace(t, b + 2) ELSE 0

TerminatorEnd(t, b) ==
    IF IsAt(t, b, <<QU, ";">>)
    THEN AfterLastNewline(NewlinesIn(t, b + 2, SkipWhitespace(t, b + 2)))
    ELSE 0

\* "(.*?)";\s*\n  from v0, the first character of the value: lazy, so the value
\* ends at the first quote that is followed by ;\s*\n.
ValueEnds(t, v0) == {b \in v0..Len(t) : TerminatorEnd(t, b) # 0}

ValueEnding(t, v0, ends) ==
    IF ends = {} THEN NoMatch
    ELSE [ok |-> TRUE, value |-> Slice(t, v0, Least(ends) - 1),
          end |-> TerminatorEnd(t, Least(ends))]

ValueMatch(t, v0) == ValueEnding(t, v0, ValueEnds(t, v0))

\*  *= *"  from s1, the position after the spaces that follow the key's quote.
AfterEquals(t, s1) == IF IsAt(t, s1, <<"=">>) THEN SkipSpaces(t, s1 + 1) ELSE 0

ValueFrom(t, s2) == IF IsAt(t, s2, <<QU>>) THEN ValueMatch(t, s2 + 1) ELSE NoMatch

\* " *= *"(.*?)";\s*\n  from the quote at a.
KeyTail(t, a) == ValueFrom(t, AfterEquals(t, SkipSpaces(t, a + 1)))

\* "(.*?)" *= *"(.*?)";\s*\n  from k0, the first character of the key: lazy, so
\* the key ends at the first quote from which the rest of the pattern matches.
KeyEnds(t, k0) == {a \in k0..Len(t) : t[a] = QU /\ KeyTail(t, a).ok}

KeyWith(t, k0, a, v) ==
    [ok |-> TRUE, key |-> Slice(t, k0, a - 1), value |-> v.value, end |-> v.end]

KeyEnding(t, k0, ends) ==
    IF ends = {} THEN NoMatch ELSE KeyWith(t, k0, Least(ends), KeyTail(t, Least(ends)))

KeyMatch(t, k0) == KeyEnding(t, k0, KeyEnds(t, k0))

\* (/\* *[^;]* *\*/\n)"...  from c0: the three quantifiers are greedy and all
\* range over characters other than ';', so of the positions up to the first ';'
\* where */\n" stands and the rest of the pattern matches, the last one closes
\* the comment.
CommentCloses(t, c0, limit) ==
    {p \in (c0 + 2)..limit : IsAt(t, p, <<"*", "/", NL, QU>>) /\ KeyMatch(t, p + 4).ok}

CommentWith(t, c0, p, k) ==
    [ok |-> TRUE, raw |-> Slice(t, c0, p + 2), key |-> k.key, value |-> k.value,
     end |-> k.end]

CommentClosing(t, c0, closes) ==
    IF closes = {} THEN NoMatch
    ELSE CommentWith(t, c0, Greatest(closes), KeyMatch(t, Greatest(closes) + 4))

CommentFrom(t, c0) ==
    IF IsAt(t, c0, <<"/", "*">>)
    THEN CommentClosing(t, c0, CommentCloses(t, c0, FirstIndexOf(t, c0 + 2, ";")))
    ELSE NoMatch

\* One /\*\*\* *[^\n]*? *\*\*\*/\n\n at h: the text between the opening /*** and
\* the closing ***/ holds no line break, so the block ends at the first line
\* break after the opening.  The position after the block, or 0.
HeaderClose(t, h, nl) ==
    IF nl - 4 >= h + 4 /\ IsAt(t, nl - 4, <<"*", "*", "*", "/", NL, NL>>)
    THEN nl + 2
    ELSE 0

HeaderEnd(t, h) ==
    IF IsAt(t, h, <<"/", "*", "*", "*">>)
    THEN HeaderClose(t, h, FirstIndexOf(t, h + 4, NL))
    ELSE 0

\* (...)* is greedy: one more header block is tried before the comment.
RECURSIVE HeadersThenComment(_, _, _)
WithHeaders(t, s, h, c) ==
    IF c.ok
    THEN [ok |-> TRUE, header |-> Slice(t, s, h - 1), raw |-> c.raw, key |-> c.key,
          value |-> c.value, end |-> c.end]
    ELSE NoMatch

OneMoreHeader(t, s, h, more) == IF more.ok THEN more ELSE WithHeaders(t, s, h, CommentFrom(t, h))

AfterHeader(t, s, next) == IF next # 0 THEN HeadersThenComment(t, s, next) ELSE NoMatch

HeadersThenComment(t, s, h) == OneMoreHeader(t, s, h, AfterHeader(t, s, HeaderEnd(t, h)))

\* re.findall(HEADER_COMMENT_KEY_VALUE_TUPLES_REGEX, file_data, ...): the
\* non-overlapping matches, leftmost first.
RECURSIVE FindallRecords(_, _)
RecordFound(t, s, m) ==
    IF m.ok
    THEN <<[header |-> m.header, raw |-> m.raw, key |-> m.key, value |-> m.value]>>
         \o FindallRecords(t, m.end)
    ELSE FindallRecords(t, s + 1)

\* Every match starts with a '/': the scan moves on to the next one.
RecordsFromSlash(t, s) ==
    IF s > Len(t) THEN <<>> ELSE RecordFound(t, s, HeadersThenComment(t, s, s))

FindallRecords(t, s) == RecordsFromSlash(t, FirstIndexOf(t, s, "/"))

\* (.*?) \*/ without DOTALL from g0, the first character of the group: the first
\* " */" on the same line.  The position of that " */", or 0.
SpanCloseAt(t, e) == IF IsAt(t, e, <<" ", "*", "/">>) THEN e ELSE 0

CommentSpanEnd(t, g0) ==
    IF g0 > Len(t) THEN 0
    ELSE SpanCloseAt(t, Least({e \in g0..(Len(t) + 1) :
                                  e > Len(t) \/ t[e] = NL \/ IsAt(t, e, <<" ", "*", "/">>)}))

\* re.findall("/\* (.*?) \*/", raw_comments)
RECURSIVE FindallComments(_, _)
CommentSpanFound(raw, i, e) ==
    IF e # 0
    THEN <<Slice(raw, i + 3, e - 1)>> \o FindallComments(raw, e + 3)
    ELSE FindallComments(raw, i + 1)

CommentsFromSlash(raw, i) ==
    IF i > Len(raw) THEN <<>>
    ELSE CommentSpanFound(raw, i,
             IF IsAt(raw, i, <<"/", "*", " ">>) THEN CommentSpanEnd(raw, i + 3) ELSE 0)

FindallComments(raw, i) == CommentsFromSlash(raw, FirstIndexOf(raw, i, "/"))

\* The loop of extract_header_comment_key_value_tuples_from_file over findall_result.
RECURSIVE TuplesOf(_)
TuplesOf(findall_result) ==
    IF findall_result = <<>> THEN <<>>
    ELSE <<[header_comment |-> Head(findall_result).header,
            comments |-> FindallComments(Head(findall_result).raw, 1),
            key |-> Head(findall_result).key,
            value |-> Head(findall_result).value]>>
         \o TuplesOf(Tail(findall_result))

\* extract_header_comment_key_value_tuples_from_file on the decoded text.
extract_header_comment_key_value_tuples_from_file(file_data) ==
    TuplesOf(FindallRecords(file_data, 1))

\* ------------------------------------------------------- the marker pattern
\* JTL_REGEX = JTL\(['"](.+?)['"],\s*['"](.+?)['"]\)   (no flags: . is not \n)

IsQuote(c) == c \in {"'", QU}

\* (.+?)['"]\)  from c0: at least one character, none a line break.
JtlCommentEnds(t, c0) ==
    {b \in (c0 + 1)..FirstIndexOf(t, c0, NL) :
        b <= Len(t) /\ IsQuote(t[b]) /\ IsAt(t, b + 1, <<")">>)}

JtlCommentEnding(t, c0, ends) ==
    IF ends = {} THEN NoMatch
    ELSE [ok |-> TRUE, comment |-> Slice(t, c0, Least(ends) - 1), end |-> Least(ends) + 2]

JtlCommentMatch(t, c0) == JtlCommentEnding(t, c0, JtlCommentEnds(t, c0))

\* ['"](.+?)['"]\)  from q, after ,\s*
JtlCommentFrom(t, q) ==
    IF q <= Len(t) /\ IsQuote(t[q]) THEN JtlCommentMatch(t, q + 1) ELSE NoMatch

\* ,\s*['"](.+?)['"]\)  after the quote at a.
JtlKeyTail(t, a) ==
    IF IsAt(t, a + 1, <<",">>) THEN JtlCommentFrom(t, SkipWhitespace(t, a + 2)) ELSE NoMatch

\* (.+?)['"],\s*['"](.+?)['"]\)  from k0: lazy, at least one character, none a
\* line break.
JtlKeyEnds(t, k0) ==
    {a \in (k0 + 1)..FirstIndexOf(t, k0, NL) :
        a <= Len(t) /\ IsQuote(t[a]) /\ JtlKeyTail(t, a).ok}

JtlKeyWith(t, k0, a, c) ==
    [ok |-> TRUE, key |-> Slice(t, k0, a - 1), comment |-> c.comment, end |-> c.end]

JtlKeyEnding(t, k0, ends) ==
    IF ends = {} THEN NoMatch
    ELSE JtlKeyWith(t, k0, Least(ends), JtlKeyTail(t, Least(ends)))

JtlKeyMatch(t, k0) == JtlKeyEnding(t, k0, JtlKeyEnds(t, k0))

JtlMatchAt(t, s) ==
    IF IsAt(t, s, <<"J", "T", "L", "(">>) /\ s + 5 <= Len(t) /\ IsQuote(t[s + 4])
    THEN JtlKeyMatch(t, s + 5)
    ELSE NoMatch

\* re.findall(JTL_REGEX, text): the (key, comment) pairs, leftmost first.
RECURSIVE FindallJtl(_, _)
JtlFound(t, s, m) ==
    IF m.ok
    THEN <<[key |-> m.key, comment |-> m.comment]>> \o FindallJtl(t, m.end)
    ELSE FindallJtl(t, s + 1)

\* Every match starts with a 'J': the scan moves on to the next one.
JtlFromJ(t, s) == IF s > Len(t) THEN <<>> ELSE JtlFound(t, s, JtlMatchAt(t, s))

FindallJtl(t, s) == JtlFromJ(t, FirstIndexOf(t, s, "J"))

\* ----------------------------------------------------------- key escaping
\* re.sub(r'([^\\])"', '\\1\\"', entry_key): a quote is rewritten only together
\* with the character before it, which must exist and not be a backslash; the
\* scan resumes after the quote.
RECURSIVE EscapeKey(_, _)
EscapeKey(key, i) ==
    IF i > Len(key) THEN <<>>
    ELSE IF i + 1 <= Len(key) /\ key[i] # BS /\ key[i + 1] = QU
         THEN <<key[i], BS, QU>> \o EscapeKey(key, i + 2)
         ELSE <<key[i]>> \o EscapeKey(key, i + 1)

KeyEqualsKeyUnterminated(escaped_key) ==
    <<QU>> \o escaped_key \o <<QU, " ", "=", " ", QU>> \o escaped_key \o <<QU, NL>>

\* u'"%s" = "%s";\n' % (escaped_key, escaped_key)
KeyEqualsKey(escaped_key) ==
    <<QU>> \o escaped_key \o <<QU, " ", "=", " ", QU>> \o escaped_key \o <<QU, ";", NL>>

\* file_descriptor.write(u'/* %s */\n' % entry_comment)
\* file_descriptor.write(u'"%s" = "%s";\n' % (escaped_key, escaped_key))
\* The text the two writes of write_entry_to_file put on the descriptor.
write_entry_to_file(entry_comment, entry_key) ==
    <<"/", "*", " ">> \o entry_comment \o <<" ", "*", "/", NL>>
    \o KeyEqualsKey(EscapeKey(entry_key, 1))

\* write_section_header_to_file: file_descriptor.write('/*** %s ***/\n' % section_name)
write_section_header_blank_line(section_name) ==
    <<"/", "*", "*", "*", " ">> \o section_name \o <<" ", "*", "*", "*", "/", NL, NL>>

write_section_header_to_file(section_name) ==
    <<"/", "*", "*", "*", " ">> \o section_name \o <<" ", "*", "*", "*", "/", NL>>

\* ------------------------------------------------------------ the sorting
\* sorted(localization_key_to_comment.iteritems(), key=operator.itemgetter(1))

\* The code points of the characters comments are made of.
CodePoint(c) ==
    CASE c = " " -> 32 [] c = "A" -> 65 [] c = "B" -> 66 [] c = "c" -> 99 [] OTHER -> 0

\* a < b for two strings: the first differing character decides, a proper prefix
\* is smaller.
RECURSIVE StrLess(_, _)
StrLess(a, b) ==
    IF b = <<>> THEN FALSE
    ELSE IF a = <<>> THEN TRUE
    ELSE IF Head(a) = Head(b) THEN StrLess(Tail(a), Tail(b))
    ELSE CodePoint(Head(a)) < CodePoint(Head(b))

RECURSIVE InsertBeforeEqual(_, _)
InsertBeforeEqual(sorted, item) ==
    IF sorted = <<>> THEN <<item>>
    ELSE IF ~StrLess(Head(sorted).comment, item.comment) THEN <<item>> \o sorted
    ELSE <<Head(sorted)>> \o InsertBeforeEqual(Tail(sorted), item)

\* The sort is stable: an item goes after the items whose comment is not greater.
RECURSIVE InsertSorted(_, _)
InsertSorted(sorted, item) ==
    IF sorted = <<>> THEN <<item>>
    ELSE IF StrLess(item.comment, Head(sorted).comment) THEN <<item>> \o sorted
    ELSE <<Head(sorted)>> \o InsertSorted(Tail(sorted), item)

RECURSIVE SortedByComment(_, _)
SortedByComment(iteritems, sorted) ==
    IF iteritems = <<>> THEN sorted
    ELSE SortedByComment(Tail(iteritems), InsertSorted(sorted, Head(iteritems)))

\* The loop of append_dictionary_to_file: a line break, then the entry.
RECURSIVE AppendLoop(_)
AppendLoop(sorted) ==
    IF sorted = <<>> THEN <<>>
    ELSE <<NL>> \o write_entry_to_file(Head(sorted).comment, Head(sorted).key)
         \o AppendLoop(Tail(sorted))

\* The loop of write_dict_to_new_file: the entry, then a line break.
RECURSIVE WriteNewLoop(_)
WriteNewLoop(sorted) ==
    IF sorted = <<>> THEN <<>>
    ELSE write_entry_to_file(Head(sorted).comment, Head(sorted).key) \o <<NL>>
         \o WriteNewLoop(Tail(sorted))

\* ------------------------------------------------------- the file codec
\* open_strings_file: codecs.open(file_path, mode, "utf-16").

\* A trailing odd byte: the UTF-16 decoder raises on it (truncated data).
ODD == "ODD"

\* read() of a handle of open_strings_file: the decoder raises on undecodable
\* data, consumes a byte-order mark at the start of the file and passes on any
\* later one as the character U+FEFF.
ReadStringsFile(units) ==
    IF \E i \in 1..Len(units) : units[i] = ODD THEN [ok |-> FALSE, text |-> <<>>]
    ELSE IF Len(units) > 0 /\ units[1] = BOM THEN [ok |-> TRUE, text |-> Tail(units)]
    ELSE [ok |-> TRUE, text |-> units]

\* The code units the writes of one handle of open_strings_file produce: the
\* stream writer emits the byte-order mark before the first text it encodes,
\* whatever the mode the file was opened in.
EncodeWrites(text) == IF text = <<>> THEN <<>> ELSE <<BOM>> \o text

\* ------------------------------------------------- the dictionary builder

\* LocalizationEntry(comments, key, value) of localization_objects.
LocalizationEntry(comments, key, value) ==
    [comments |-> comments, key |-> key, value |-> value]

\* localization_entry.__getattribute__(localization_entry_attribute_name_for_key)
GetAttribute(localization_entry, name) ==
    IF name = "key" THEN localization_entry.key ELSE localization_entry.value

DictSetFirstWins(d, k, v) == d @@ (k :> v)

\* localization_dictionary[k] = v
DictSet(d, k, v) == (k :> v) @@ d

\* The loop of __generate_localization_dictionary_from_file over the tuples
\* from position i on.
RECURSIVE DictionaryLoop(_, _, _, _)
DictionaryLoop(tuples, i, localization_dictionary, attribute) ==
    IF i > Len(tuples) THEN localization_dictionary
    ELSE LET localization_entry ==
                 LocalizationEntry(tuples[i].comments, tuples[i].key, tuples[i].value)
         IN DictionaryLoop(tuples, i + 1,
                DictSet(localization_dictionary,
                        GetAttribute(localization_entry, attribute), localization_entry),
                attribute)

\* ------------------------------------------------------------------ state

VARIABLES
    entry,        \* render round trip: the (comment, key) handed to write_entry_to_file
    rendered,     \* render round trip: the text on the descriptor
    parsed,       \* render round trip: what the parser returned for that text
    layout,       \* strings file: the pieces its text was composed of
    disk,         \* strings file: its content, in UTF-16 code units
    openHandles,  \* file handles opened and not closed
    last,         \* strings file: the last operation, its outcome and what it returned
    walk          \* directory walk: the tree, the arguments and the position of the call

vars == <<entry, rendered, parsed, layout, disk, openHandles, last, walk>>

RenderVars == <<entry, rendered, parsed>>
FileVars == <<layout, disk, openHandles, last>>

NoEntry == [comment |-> <<>>, key |-> <<>>]
NoOp == [op |-> "none", outcome |-> "none", records |-> <<>>, dict |-> <<>>]

RenderIdle == entry = NoEntry /\ rendered = <<>> /\ parsed = [done |-> FALSE, records |-> <<>>]
FileIdle == layout = <<>> /\ disk = <<>> /\ openHandles = 0 /\ last = NoOp

NoWalk == [pc |-> "off"]
WalkIdle == walk = NoWalk

\* ------------------------------------------------- render and parse back

MaxCommentLen == 3
MaxKeyLen == 4

SeqsUpTo(S, n) == UNION {[1..k -> S] : k \in 0..n}

CommentChars == {"c", ";", "*", "/", NL, " ", QU}
KeyChars == {"k", QU, BS, ";", NL, "=", " "}

NotParsed == [done |-> FALSE, records |-> <<>>]

RenderInputs ==
    [comment : SeqsUpTo(CommentChars, MaxCommentLen), key : {<<"k">>, <<"k", BS, QU>>}]
    \cup [comment : {<<"c">>, <<>>}, key : SeqsUpTo(KeyChars, MaxKeyLen)]

InitRender ==
    /\ entry \in RenderInputs
    /\ rendered = <<>>
    /\ parsed = NotParsed
    /\ FileIdle
    /\ WalkIdle

\* write_entry_to_file on a descriptor of a new file.
WriteEntry ==
    /\ rendered = <<>>
    /\ rendered' = write_entry_to_file(entry.comment, entry.key)
    /\ UNCHANGED <<entry, parsed, FileVars, walk>>

\* extract_header_comment_key_value_tuples_from_file on the file just written.
ParseBack ==
    /\ rendered # <<>>
    /\ ~parsed.done
    /\ parsed' = [done |-> TRUE,
                  records |-> extract_header_comment_key_value_tuples_from_file(rendered)]
    /\ UNCHANGED <<entry, rendered, FileVars, walk>>

NextRender == WriteEntry \/ ParseBack

SpecRender == InitRender /\ [][NextRender]_vars

\* ------------------------------------------- strings files to read back

MaxPieces == 3
\* The model stops opening files once this many handles are open.
MaxHandles == 2

CommentLine(c) == <<"/", "*", " ">> \o c \o <<" ", "*", "/", NL>>

RECURSIVE CommentLines(_)
CommentLines(cs) == IF cs = <<>> THEN <<>> ELSE CommentLine(Head(cs)) \o CommentLines(Tail(cs))

KeyValueText(k, v) == <<QU>> \o k \o <<QU, " ", "=", " ", QU>> \o v \o <<QU>>

\* The text of one piece of a strings file.
PieceText(p) ==
    CASE p.kind = "entry"  -> CommentLines(p.comments) \o KeyValueText(p.key, p.value) \o <<";", NL>>
      [] p.kind = "nosemi" -> CommentLines(p.comments) \o KeyValueText(p.key, p.value) \o <<NL>>
      [] p.kind = "nonl"   -> CommentLines(p.comments) \o KeyValueText(p.key, p.value) \o <<";">>
      [] p.kind = "header" -> <<"/", "*", "*", "*", " ", "S", " ", "*", "*", "*", "/", NL, NL>>
      [] OTHER             -> <<NL>>

RECURSIVE LayoutText(_)
LayoutText(ps) == IF ps = <<>> THEN <<>> ELSE PieceText(Head(ps)) \o LayoutText(Tail(ps))

Entries ==
    { [kind |-> "entry", comments |-> <<<<"c">>>>, key |-> <<"a">>, value |-> <<"x">>],
      [kind |-> "entry", comments |-> <<<<"e">>, <<"d">>>>, key |-> <<"a">>, value |-> <<"y">>],
      [kind |-> "entry", comments |-> <<<<"c">>>>, key |-> <<"b">>, value |-> <<"x">>],
      [kind |-> "entry", comments |-> <<<<"d">>>>, key |-> <<"a">>, value |-> <<"x">>] }

Pieces ==
    Entries
    \cup [kind : {"nosemi", "nonl"}, comments : {<<<<"c">>>>}, key : {<<"a">>}, value : {<<"x">>}]
    \cup [kind : {"header", "blank"}, comments : {<<>>}, key : {<<>>}, value : {<<>>}]

\* A strings file as a UTF-16 writer left it, or one cut short in the middle of
\* a code unit.
InitStrings ==
    /\ layout \in SeqsUpTo(Pieces, MaxPieces)
    /\ disk \in {EncodeWrites(LayoutText(layout))}
               \cup (IF Len(layout) <= 1
                     THEN {EncodeWrites(LayoutText(layout)) \o <<ODD>>} ELSE {})
    /\ openHandles = 0
    /\ last = NoOp
    /\ RenderIdle
    /\ WalkIdle

\* A caller opens the file and hands the descriptor to
\* extract_header_comment_key_value_tuples_from_file.
ExtractTuples ==
    \E file_data \in {ReadStringsFile(disk)} :
        /\ last' = IF file_data.ok
                   THEN [op |-> "extract", outcome |-> "returned",
                         records |-> extract_header_comment_key_value_tuples_from_file(file_data.text),
                         dict |-> <<>>]
                   ELSE [op |-> "extract", outcome |-> "raised", records |-> <<>>, dict |-> <<>>]
        /\ UNCHANGED <<layout, disk, openHandles, RenderVars, walk>>

\* __generate_localization_dictionary_from_file: open, read and parse, build,
\* close.  When read() raises, f.close() is not reached: the handle stays open
\* unless the runtime's finalizer has closed it by the time the error reaches
\* the caller.
generate_localization_dictionary_from_file(attribute, op) ==
    \E file_data \in {ReadStringsFile(disk)} :
        /\ openHandles < MaxHandles
        /\ \/ /\ file_data.ok
              /\ \E tuples \in {extract_header_comment_key_value_tuples_from_file(file_data.text)} :
                     last' = [op |-> op, outcome |-> "returned", records |-> tuples,
                              dict |-> DictionaryLoop(tuples, 1, <<>>, attribute)]
              /\ openHandles' = (openHandles + 1) - 1
           \/ /\ ~file_data.ok
              /\ last' = [op |-> op, outcome |-> "raised", records |-> <<>>, dict |-> <<>>]
              /\ \E finalized \in BOOLEAN :
                     openHandles' = IF finalized THEN openHandles ELSE openHandles + 1
        /\ UNCHANGED <<layout, disk, RenderVars, walk>>

generate_localization_key_to_entry_dictionary_from_file ==
    generate_localization_dictionary_from_file("key", "key_dict")

generate_localization_value_to_entry_dictionary_from_file ==
    generate_localization_dictionary_from_file("value", "value_dict")

NextStrings ==
    \/ ExtractTuples
    \/ generate_localization_key_to_entry_dictionary_from_file
    \/ generate_localization_value_to_entry_dictionary_from_file

SpecStrings == InitStrings /\ [][NextStrings]_vars

\* The comments, key and value of each record.
RECURSIVE CommentsKeyValue(_)
CommentsKeyValue(records) ==
    IF records = <<>> THEN <<>>
    ELSE <<[comments |-> Head(records).comments, key |-> Head(records).key,
            value |-> Head(records).value]>> \o CommentsKeyValue(Tail(records))

\* One record per well-formed entry of the layout, in file order.
RECURSIVE EntriesOf(_)
EntriesOf(ps) ==
    IF ps = <<>> THEN <<>>
    ELSE (IF Head(ps).kind = "entry"
          THEN <<[comments |-> Head(ps).comments, key |-> Head(ps).key,
                  value |-> Head(ps).value]>>
          ELSE <<>>) \o EntriesOf(Tail(ps))

Extracted == last.op = "extract" /\ last.outcome = "returned"

MalformedOnlyTrailing ==
    \A i \in 1..(Len(layout) - 1) : layout[i].kind \in {"entry", "header", "blank"}

Built == last.op \in {"key_dict", "value_dict"} /\ last.outcome = "returned"

SelectedAttribute(r) == IF last.op = "key_dict" THEN r.key ELSE r.value

\* The last record of the parsed sequence that carries attribute value v.
LastIndexWith(v) ==
    CHOOSE j \in 1..Len(last.records) :
        /\ SelectedAttribute(last.records[j]) = v
        /\ \A i \in (j + 1)..Len(last.records) : SelectedAttribute(last.records[i]) # v

\* C4: the dictionary's keys are exactly the distinct selected-attribute values
\* of the parsed records, each key maps to the entry built from the last record
\* carrying it, and the builder returns for every readable file, duplicates or not.
C4_LastWriteWins ==
    /\ (last.op \in {"key_dict", "value_dict"} /\ ReadStringsFile(disk).ok)
           => last.outcome = "returned"
    /\ Built =>
        /\ DOMAIN last.dict =
               {SelectedAttribute(last.records[i]) : i \in 1..Len(last.records)}
        /\ \A v \in DOMAIN last.dict :
               last.dict[v] = [comments |-> last.records[LastIndexWith(v)].comments,
                               key |-> last.records[LastIndexWith(v)].key,
                               value |-> last.records[LastIndexWith(v)].value]

C4_Witness ==
    /\ Built
    /\ last.op = "key_dict"
    /\ Len(last.records) = 3
    /\ last.records[1].key = last.records[3].key
    /\ last.records[1].comments # last.records[3].comments
    /\ last.dict[last.records[1].key].comments = last.records[3].comments

\* C10: no operation has finished, normally or with an error, while a file
\* handle it opened is still open: between operations no handle is open.
C10_NoHandleLeftOpen == openHandles = 0

\* ------------------------------------------------------- the serializer

MaxItems == 3

SerialKeys == {<<"p">>, <<"q">>, <<"r">>}
SerialComments == {<<"A">>, <<"B">>, <<"A", " ", "c">>}
SectionNames == {<<"N">>}

\* The mappings handed to the serializer: (key, comment) pairs with distinct
\* keys, in the order the caller put them into the dict.
Mappings ==
    {m \in SeqsUpTo([key : SerialKeys, comment : SerialComments], MaxItems) :
        \A i, j \in 1..Len(m) : i # j => m[i].key # m[j].key}

\* The target file before the call: absent or empty, or written earlier.
ExistingFiles ==
    {<<>>, EncodeWrites(write_entry_to_file(<<"c">>, <<"p">>) \o <<NL>>)}

NoSerialOp ==
    [op |-> "none", outcome |-> "none", items |-> <<>>, iteritems |-> <<>>,
     section |-> <<>>, before |-> <<>>]

InitSerial ==
    /\ layout = <<>>
    /\ disk \in ExistingFiles
    /\ openHandles = 0
    /\ last = NoSerialOp
    /\ RenderIdle
    /\ WalkIdle

\* The items in the order the dict's iteritems() yields them: any order.
IterItems(items, order) == [i \in 1..Len(items) |-> items[order[i]]]

\* What reached the file when the write of entry number failed + 1 raised (every
\* entry when none did).
WrittenBefore(sorted, failed) ==
    IF failed < Len(sorted) THEN SubSeq(sorted, 1, failed) ELSE sorted

\* What the handle is left as: closed by output_file.close() on the normal path;
\* on a raising write close() is not reached and the handle stays open unless
\* the runtime's finalizer closed it.
HandleAfter(failed, n) ==
    IF failed < n THEN {openHandles, openHandles + 1} ELSE {openHandles}

append_dictionary_to_file ==
    /\ last.op = "none"
    /\ \E items \in Mappings, section_name \in SectionNames :
       \E order \in Permutations(1..Len(items)), failed \in 0..Len(items) :
       \E sorted \in {SortedByComment(IterItems(items, order), <<>>)} :
           /\ disk' = disk \o EncodeWrites(write_section_header_to_file(section_name)
                                           \o AppendLoop(WrittenBefore(sorted, failed)))
           /\ openHandles' \in HandleAfter(failed, Len(items))
           /\ last' = [op |-> "append",
                       outcome |-> IF failed < Len(items) THEN "raised" ELSE "returned",
                       items |-> items, iteritems |-> IterItems(items, order),
                       section |-> section_name, before |-> disk]
    /\ UNCHANGED <<layout, RenderVars, walk>>

write_dict_to_new_file ==
    /\ last.op = "none"
    /\ \E items \in Mappings :
       \E order \in Permutations(1..Len(items)), failed \in 0..Len(items) :
       \E sorted \in {SortedByComment(IterItems(items, order), <<>>)} :
           /\ disk' = EncodeWrites(WriteNewLoop(WrittenBefore(sorted, failed)))
           /\ openHandles' \in HandleAfter(failed, Len(items))
           /\ last' = [op |-> "write_new",
                       outcome |-> IF failed < Len(items) THEN "raised" ELSE "returned",
                       items |-> items, iteritems |-> IterItems(items, order),
                       section |-> <<>>, before |-> disk]
    /\ UNCHANGED <<layout, RenderVars, walk>>

NextSerial == append_dictionary_to_file \/ write_dict_to_new_file

SpecSerial == InitSerial /\ [][NextSerial]_vars

\* ---------------------------------------------------- the directory walk

MaxDepth == 2
MaxFiles == 3

FileNames == {"a.m", "b.m", "c.txt"}

MarkerPair(k, c) == [key |-> <<k>>, comment |-> <<c>>]

\* What a file holds: the markers in its text, and whether reading it fails.
\* With the built-in extractor a failing file is one that cannot be opened; a
\* custom extractor merges the pairs and raises after that.
FileContents ==
    {[pairs |-> <<MarkerPair("G", "h")>>, fails |-> FALSE],
     [pairs |-> <<MarkerPair("F", "b"), MarkerPair("G", "i")>>, fails |-> FALSE],
     [pairs |-> <<MarkerPair("F", "c")>>, fails |-> TRUE]}

\* Where a file is: the directory at the given depth below the root, and its
\* bare name.
Places == [dir : 0..MaxDepth, name : FileNames]

\* The walk is top-down: a file is never listed after one of a deeper directory,
\* and no directory holds a name twice.
TopDown(places) ==
    /\ \A i \in 1..(Len(places) - 1) : places[i].dir <= places[i + 1].dir
    /\ \A i, j \in 1..Len(places) : i # j => places[i] # places[j]

\* The files of a tree, in the order of the walk.
FilesOf(places, contents) ==
    [i \in 1..Len(places) |->
        [dir |-> places[i].dir, name |-> places[i].name,
         pairs |-> contents[i].pairs, fails |-> contents[i].fails]]

Roots == {"listable", "missing", "unreadable"}
Filters == {{"a.m", "b.m"}, {"a.m"}}
Extractors == {"jtl", "custom"}

\* The text of a source file with the given markers, quoted alternately with
\* single and double quotes.
RECURSIVE MarkerText(_, _)
MarkerText(pairs, i) ==
    IF i > Len(pairs) THEN <<>>
    ELSE <<"J", "T", "L", "(">>
         \o <<IF i % 2 = 1 THEN "'" ELSE QU>> \o pairs[i].key
         \o <<IF i % 2 = 1 THEN "'" ELSE QU, ",", " ", IF i % 2 = 1 THEN "'" ELSE QU>>
         \o pairs[i].comment \o <<IF i % 2 = 1 THEN "'" ELSE QU, ")", ";", NL>>
         \o MarkerText(pairs, i + 1)

FileText(file) == <<"x", " ">> \o MarkerText(file.pairs, 1)

\* for result_key, result_comment in result_pairs: results_dict[result_key] = result_comment
RECURSIVE MergeLoop(_, _, _)
MergeLoop(result_pairs, i, results_dict) ==
    IF i > Len(result_pairs) THEN results_dict
    ELSE MergeLoop(result_pairs, i + 1,
                   DictSet(results_dict, result_pairs[i].key, result_pairs[i].comment))

\* extract_jtl_string_pairs_from_text_file: open() raises on a file that cannot
\* be opened, before anything is merged.
extract_jtl_string_pairs_from_text_file(results_dict, file) ==
    IF file.fails
    THEN [raised |-> "IOError", results_dict |-> results_dict]
    ELSE [raised |-> "",
          results_dict |-> MergeLoop(FindallJtl(FileText(file), 1), 1, results_dict)]

\* An extractor of the caller's: it merges what it found and may raise an error
\* after that.
CustomExtractor(results_dict, file) ==
    [raised |-> IF file.fails THEN "ValueError" ELSE "",
     results_dict |-> MergeLoop(file.pairs, 1, results_dict)]

extract_func(which, results_dict, file) ==
    IF which = "jtl" THEN extract_jtl_string_pairs_from_text_file(results_dict, file)
    ELSE CustomExtractor(results_dict, file)

AcceptsEveryName(accepted, file_name) == TRUE

filter_func(accepted, file_name) == file_name \in accepted

CatchesIOErrorOnly(error) == error = "IOError"

\* except Exception: the errors of the model are all derived from Exception.
ExceptException(error) == error \in {"IOError", "ValueError"}

ListsWhateverIsThere(root, files) == files

\* os.walk(directory_path): with no onerror callback the error of listing the
\* top directory is dropped and the walk yields nothing.
os_walk(root, files) == IF root = "listable" THEN files ELSE <<>>

os_path_join(file) == [dir |-> file.dir, name |-> file.name]

InitWalk ==
    /\ RenderIdle
    /\ FileIdle
    /\ \E n \in 0..MaxFiles :
       \E places \in {p \in [1..n -> Places] : TopDown(p)}, contents \in [1..n -> FileContents] :
       \E root \in Roots, accepted \in Filters, which \in Extractors :
        /\ root = "missing" => n = 0
        /\ root = "unreadable" => n = 1
        /\ walk = [pc |-> "idle", root |-> root, files |-> FilesOf(places, contents),
                   accepted |-> accepted, extract_func |-> which, listing |-> <<>>,
                   next |-> 0, result |-> <<>>, calls |-> <<>>, reported |-> <<>>]

\* extract_string_pairs_in_directory is called: result = {} and the walk starts.
CallWalk ==
    /\ walk.pc = "idle"
    /\ walk' = [walk EXCEPT !.pc = "walking", !.next = 1,
                            !.listing = os_walk(walk.root, walk.files)]
    /\ UNCHANGED <<RenderVars, FileVars>>

\* A file name the filter turns down.
SkipFile ==
    /\ walk.pc = "walking"
    /\ walk.next <= Len(walk.listing)
    /\ ~filter_func(walk.accepted, walk.listing[walk.next].name)
    /\ walk' = [walk EXCEPT !.next = @ + 1]
    /\ UNCHANGED <<RenderVars, FileVars>>

\* What the call is left as after the extractor came back with the outcome.
AfterExtract(file, outcome) ==
    IF outcome.raised = ""
    THEN [walk EXCEPT !.next = @ + 1, !.result = outcome.results_dict,
                      !.calls = Append(@, os_path_join(file))]
    ELSE IF ExceptException(outcome.raised)
    THEN [walk EXCEPT !.next = @ + 1, !.result = outcome.results_dict,
                      !.calls = Append(@, os_path_join(file)),
                      !.reported = Append(@, [file_name |-> file.name, e |-> outcome.raised])]
    ELSE [walk EXCEPT !.pc = "raised", !.result = outcome.results_dict,
                      !.calls = Append(@, os_path_join(file))]

\* A file name the filter accepts: the extractor is called inside try/except.
\* The built-in extractor never closes the file it read: the handle stays open
\* unless the runtime's finalizer closed it.
ExtractFile ==
    /\ walk.pc = "walking"
    /\ walk.next <= Len(walk.listing)
    /\ \E file \in {walk.listing[walk.next]} :
        /\ filter_func(walk.accepted, file.name)
        /\ walk' = AfterExtract(file, extract_func(walk.extract_func, walk.result, file))
        /\ IF walk.extract_func = "jtl" /\ ~file.fails
           THEN \E finalized \in BOOLEAN :
                    /\ ~finalized => openHandles < MaxHandles
                    /\ openHandles' = IF finalized THEN openHandles ELSE openHandles + 1
           ELSE openHandles' = openHandles
    /\ UNCHANGED <<RenderVars, layout, disk, last>>

\* The walk is exhausted: return result.
ReturnResult ==
    /\ walk.pc = "walking"
    /\ walk.next > Len(walk.listing)
    /\ walk' = [walk EXCEPT !.pc = "returned"]
    /\ UNCHANGED <<RenderVars, FileVars>>

NextWalk == CallWalk \/ SkipFile \/ ExtractFile \/ ReturnResult

SpecWalk == InitWalk /\ [][NextWalk]_vars

\* ------------------------------------------------- claims on the rendering

\* Every quote of the key is preceded by a backslash.
NoUnescapedQuote(key) ==
    \A i \in 1..Len(key) : key[i] = QU => (i > 1 /\ key[i - 1] = BS)

\* The key holds a quote followed by ';', optional whitespace and a line break.
QuoteThenTerminator(key) == \E i \in 1..Len(key) : TerminatorEnd(key, i) # 0

\* The key ends with a quote followed by optional spaces, '=', optional spaces.
QuoteThenEqualsAtEnd(key) ==
    \E i \in 1..Len(key) :
        /\ key[i] = QU
        /\ IsAt(key, SkipSpaces(key, i + 1), <<"=">>)
        /\ SkipSpaces(key, SkipSpaces(key, i + 1) + 1) = Len(key) + 1

\* The one record a round trip of the entry is said to yield.
RoundTripRecord ==
    [header_comment |-> <<>>, comments |-> <<entry.comment>>,
     key |-> entry.key, value |-> entry.key]

\* C5 as stated: for an entry whose comment does not contain */ and whose key
\* holds no unescaped quote, parsing the rendered text yields exactly one record
\* with the entry's comment, (escaped) key and value.
C5_RoundTripAsStated ==
    (parsed.done /\ ~Contains(entry.comment, <<"*", "/">>) /\ NoUnescapedQuote(entry.key))
        => parsed.records = <<RoundTripRecord>>

C5_Pre ==
    /\ ~Contains(entry.comment, <<"*", "/">>)
    /\ ~Contains(entry.comment, <<";">>)
    /\ ~Contains(entry.comment, <<NL>>)
    /\ NoUnescapedQuote(entry.key)
    /\ ~QuoteThenTerminator(entry.key)
    /\ ~QuoteThenEqualsAtEnd(entry.key)

\* C5 amended: the round trip holds when, in addition, the comment holds no ';'
\* and no line break, and the key holds no quote followed by ';', optional
\* whitespace and a line break and does not end with a quote followed by
\* optional spaces, '=' and optional spaces.
C5_RoundTrip ==
    (parsed.done /\ C5_Pre) => parsed.records = <<RoundTripRecord>>

C5_Witness ==
    /\ parsed.done
    /\ C5_Pre
    /\ Contains(entry.key, <<BS, QU>>)
    /\ parsed.records = <<RoundTripRecord>>

\* The key with a backslash put before every quote that no backslash precedes.
RECURSIVE RequiredEscape(_, _)
RequiredEscape(key, i) ==
    IF i > Len(key) THEN <<>>
    ELSE (IF key[i] = QU /\ (i = 1 \/ key[i - 1] # BS) THEN <<BS, QU>> ELSE <<key[i]>>)
         \o RequiredEscape(key, i + 1)

\* C6: the rendered entry carries, on both sides of the '=', the key with a
\* backslash before every quote that was not already preceded by a backslash,
\* a quote at the first position and each of several consecutive quotes included.
C6_EveryUnescapedQuoteEscaped ==
    rendered # <<>> =>
        rendered = <<"/", "*", " ">> \o entry.comment \o <<" ", "*", "/", NL>>
                   \o <<QU>> \o RequiredEscape(entry.key, 1) \o <<QU, " ", "=", " ", QU>>
                   \o RequiredEscape(entry.key, 1) \o <<QU, ";", NL>>
\* ------------------------------------------------ claims on the serializer

ReturnedFrom(op) == last.op = op /\ last.outcome = "returned"

Arranged(source, perm) == [i \in 1..Len(source) |-> source[perm[i]]]

Ascending(out) ==
    \A i, j \in 1..Len(out) : i < j => ~StrLess(out[j].comment, out[i].comment)

\* Items of equal comment keep the relative order they have in the source.
TiesInSourceOrder(out, perm) ==
    \A i, j \in 1..Len(out) :
        (i < j /\ out[i].comment = out[j].comment) => perm[i] < perm[j]

\* Every item as a rendered entry followed by an empty line.
RECURSIVE EntriesEachThenBlank(_)
EntriesEachThenBlank(out) ==
    IF out = <<>> THEN <<>>
    ELSE write_entry_to_file(Head(out).comment, Head(out).key) \o <<NL>>
         \o EntriesEachThenBlank(Tail(out))

\* Every item as an empty line followed by the rendered entry.
RECURSIVE BlankThenEntryEach(_)
BlankThenEntryEach(out) ==
    IF out = <<>> THEN <<>>
    ELSE <<NL>> \o write_entry_to_file(Head(out).comment, Head(out).key)
         \o BlankThenEntryEach(Tail(out))

FileIsEntriesOf(source, ties) ==
    \E perm \in Permutations(1..Len(source)) :
        /\ Ascending(Arranged(source, perm))
        /\ ties => TiesInSourceOrder(Arranged(source, perm), perm)
        /\ ReadStringsFile(disk).ok
        /\ ReadStringsFile(disk).text = EntriesEachThenBlank(Arranged(source, perm))

\* C7 as stated: after write_dict_to_new_file returns, the file holds nothing but
\* the pairs of the mapping, each once as a rendered entry followed by a blank
\* line, in ascending order of comment, pairs of equal comment in the order the
\* caller put them into the mapping.
C7_TiesInInputOrder ==
    ReturnedFrom("write_new") => FileIsEntriesOf(last.items, TRUE)

\* C7 amended: the same, except that pairs of equal comment appear in the order
\* the mapping's iteration yields them.
C7_TiesInIterationOrder ==
    ReturnedFrom("write_new") => FileIsEntriesOf(last.iteritems, TRUE)

\* A file that had content is rewritten from a mapping of three pairs, two of
\* them with the same comment, which the iteration yields in the reverse of the
\* order they were put in.
C7_Witness ==
    /\ ReturnedFrom("write_new")
    /\ last.before # <<>>
    /\ Len(last.items) = 3
    /\ \E i, j \in 1..3 :
        /\ i < j
        /\ last.items[i].comment = last.items[j].comment
        /\ last.iteritems[1] = last.items[j]
        /\ last.iteritems[2] = last.items[i]

SectionHeaderLine(section_name) ==
    <<"/", "*", "*", "*", " ">> \o section_name \o <<" ", "*", "*", "*", "/", NL>>

\* The units the append put after the old content are the given text, encoded
\* with or without a byte-order mark in front.
AppendedIs(text) ==
    \/ disk = last.before \o text
    \/ disk = last.before \o <<BOM>> \o text

\* C8 as stated: after append_dictionary_to_file returns, the old content is a
\* prefix of the file and what follows it is the section-header line, a blank
\* line, and then for every pair in ascending order of comment a blank line
\* followed by the rendered entry.
C8_HeaderThenBlankLine ==
    ReturnedFrom("append") =>
        \E perm \in Permutations(1..Len(last.items)) :
            /\ Ascending(Arranged(last.items, perm))
            /\ AppendedIs(SectionHeaderLine(last.section) \o <<NL>>
                          \o BlankThenEntryEach(Arranged(last.items, perm)))

\* C8 amended: after append_dictionary_to_file returns, the old content is a
\* prefix of the file and what follows it is a byte-order mark, the
\* section-header line ended by one line break, and then for every pair in
\* ascending order of comment a blank line followed by the rendered entry.
C8_AppendsAfterPrefix ==
    ReturnedFrom("append") =>
        \E perm \in Permutations(1..Len(last.items)) :
            /\ Ascending(Arranged(last.items, perm))
            /\ disk = last.before \o <<BOM>> \o SectionHeaderLine(last.section)
                      \o BlankThenEntryEach(Arranged(last.items, perm))

\* A mapping whose pair of greater comment was put in first is appended to a file
\* that had content.
C8_Witness ==
    /\ ReturnedFrom("append")
    /\ last.before # <<>>
    /\ Len(last.items) = 2
    /\ StrLess(last.items[2].comment, last.items[1].comment)

\* -------------------------------------------- claims on the directory walk

Returned == walk.pc = "returned"

\* The positions, in the tree, of the files whose bare name satisfies the filter.
AcceptedAt == {i \in 1..Len(walk.files) : walk.files[i].name \in walk.accepted}

\* The positions of the accepted files on which the extractor raises.
FailingAt == {i \in AcceptedAt : walk.files[i].fails}

\* The pairs the extractor merges from a file: a file the built-in extractor
\* cannot open gives none.
MergedFrom(i) ==
    IF walk.extract_func = "jtl" /\ walk.files[i].fails THEN <<>> ELSE walk.files[i].pairs

\* Some pair merged after pair n of file i has the same key.
MergedLaterWithKey(i, n, k) ==
    \/ \E m \in (n + 1)..Len(MergedFrom(i)) : MergedFrom(i)[m].key = k
    \/ \E j \in AcceptedAt : j > i /\ \E m \in 1..Len(MergedFrom(j)) : MergedFrom(j)[m].key = k

CallsOn(i) ==
    {c \in 1..Len(walk.calls) :
        walk.calls[c] = [dir |-> walk.files[i].dir, name |-> walk.files[i].name]}

\* C1: the walk never ends in an error of the extractor; when it has returned
\* from a tree it could list, the extractor was called on every accepted file,
\* those after a failing one included, every failing file was reported with its
\* name and error, and every pair merged from any file is in the returned
\* mapping unless a pair merged later has the same key.
C1_FailureIsolated ==
    /\ walk.pc # "raised"
    /\ (Returned /\ walk.root = "listable") =>
        /\ \A i \in AcceptedAt : CallsOn(i) # {}
        /\ Len(walk.reported) = Cardinality(FailingAt)
        /\ \A i \in FailingAt :
            \E r \in 1..Len(walk.reported) :
                /\ walk.reported[r].file_name = walk.files[i].name
                /\ walk.reported[r].e \in {"IOError", "ValueError"}
                /\ r = Cardinality({j \in FailingAt : j <= i})
        /\ \A i \in AcceptedAt : \A n \in 1..Len(MergedFrom(i)) :
            /\ MergedFrom(i)[n].key \in DOMAIN walk.result
            /\ \/ walk.result[MergedFrom(i)[n].key] = MergedFrom(i)[n].comment
               \/ MergedLaterWithKey(i, n, MergedFrom(i)[n].key)

\* Three accepted files, the extractor raised on the second one only, and the
\* call returned with that one failure reported and the key of the first file in
\* the mapping.
C1_Witness ==
    /\ Returned
    /\ Len(walk.files) = 3
    /\ AcceptedAt = {1, 2, 3}
    /\ FailingAt = {2}
    /\ Len(walk.calls) = 3
    /\ Len(walk.reported) = 1
    /\ <<"G">> \in DOMAIN walk.result

RootFails == walk.root \in {"missing", "unreadable"}

\* C2 as stated: with a root that is missing or cannot be read the call never
\* returns a mapping.
C2_RootFailurePropagates == RootFails => ~Returned

\* C2 amended: with a root that is missing or cannot be read the call does not
\* end in an error; when it has returned, the mapping is empty, the extractor
\* was never called and nothing was reported.
C2_RootFailureReturnsEmpty ==
    RootFails =>
        /\ walk.pc # "raised"
        /\ Returned => (walk.result = <<>> /\ walk.calls = <<>> /\ walk.reported = <<>>)

\* The call has returned for a root that cannot be read and that holds a file
\* the filter accepts.
C2_Witness ==
    /\ Returned
    /\ walk.root = "unreadable"
    /\ AcceptedAt # {}

\* The marker pairs of the accepted files that can be read, in the order of the
\* walk.
RECURSIVE MarkersFrom(_)
MarkersFrom(i) ==
    IF i > Len(walk.files) THEN <<>>
    ELSE (IF i \in AcceptedAt /\ ~walk.files[i].fails THEN walk.files[i].pairs ELSE <<>>)
         \o MarkersFrom(i + 1)

\* The keys of the mapping are the keys of the markers, each with the comment of
\* the last marker that has it.
HoldsLastOfEach(mapping, markers) ==
    /\ DOMAIN mapping = {markers[n].key : n \in 1..Len(markers)}
    /\ \A n \in 1..Len(markers) :
        (\A m \in (n + 1)..Len(markers) : markers[m].key # markers[n].key)
        => mapping[markers[n].key] = markers[n].comment

\* C3: when the call has returned from a tree it could list, the extractor was
\* called exactly once on every file whose bare name satisfies the filter, at
\* whatever depth, and on no other file; with the built-in extractor the keys of
\* the mapping are the marker keys of the accepted files, each with the comment
\* of its last marker.
C3_OncePerAcceptedFile ==
    (Returned /\ walk.root = "listable") =>
        /\ \A i \in AcceptedAt : Cardinality(CallsOn(i)) = 1
        /\ \A c \in 1..Len(walk.calls) : \E i \in AcceptedAt : c \in CallsOn(i)
        /\ walk.extract_func = "jtl" => HoldsLastOfEach(walk.result, MarkersFrom(1))

\* The built-in extractor went over a.m in the root, a rejected c.txt with
\* markers and b.m two directories down, and returned two keys.
C3_Witness ==
    /\ Returned
    /\ walk.extract_func = "jtl"
    /\ walk.accepted = {"a.m", "b.m"}
    /\ Len(walk.files) = 3
    /\ walk.files[1].name = "a.m" /\ walk.files[1].dir = 0
    /\ walk.files[2].name = "c.txt"
    /\ walk.files[3].name = "b.m" /\ walk.files[3].dir = 2
    /\ Len(walk.calls) = 2
    /\ DOMAIN walk.result = {<<"G">>, <<"F">>}

====
